---- MODULE Spec2Model ----
(***************************************************************************)
(* A model of the secret-santa exchange application.                       *)
(*                                                                         *)
(*  - SpecCycle: one call of createAssignmentCycle (src/lib/assignment.ts) *)
(*    run statement by statement on an arbitrary bounded input, every      *)
(*    Math.random() draw being a nondeterministic choice.                  *)
(*  - Spec: the coordinator (src/lib/exchange.ts and the assign route):    *)
(*    concurrent requests interleaving at their await points over the      *)
(*    exchange, participant and assignment tables.                         *)
(*  - SpecRead: the same requests served one at a time, followed by a read *)
(*    (GET /api/assignment/[exchangeId] or the exchange page).             *)
(*  - SpecAuth: signup, login, logout and validateSession                  *)
(*    (src/lib/auth.ts) over the user and session tables and a clock.      *)
(*  - SpecJoin: the signup route with an exchange code, createExchange and *)
(*    joinExchange, interleaving at their await points.                    *)
(*  - SpecCycleLive: SpecCycle with the call running to its end.           *)
(*  - SpecCreate: createExchange step by step (the code lookups of         *)
(*    generateUniqueExchangeCode, then the transaction), with joins.       *)
(*  - SpecMulti: joins and generations for two stored exchanges.           *)
(*  - SpecGate: the middleware (src/components/FormError.tsx) over the     *)
(*    session table, with signup, login, logout and the clock.             *)
(***************************************************************************)
EXTENDS Integers, Sequences, FiniteSets, Bags, TLC

(* ---------------------------------------------------------------- bounds *)

\* Longest participant array handed to createAssignmentCycle in SpecCycle.
MaxLen == 4

\* Number of distinct user ids the arrays of SpecCycle are drawn from.
NumIds == 4

Ids == 1..NumIds

\* Registered users, exchanges that can be created, and requests that can be
\* in flight at once in Spec.
NumUsers == 3
NumExchanges == 1
MaxInFlight == 2

\* Requests served in one run of Spec.
MaxRequests == 5

Users == 1..NumUsers
ExchangeIds == 1..NumExchanges

\* The codes a request can name: one per exchange, and one no exchange gets.
Codes == 1..(NumExchanges + 1)

\* Email addresses and session tokens of SpecAuth and SpecJoin, and the number
\* of times the clock of SpecAuth advances.
NumEmails == 2
NumTokens == 2
MaxTicks == 2

Emails == 1..NumEmails
\* Two passwords: a password is only ever compared with the stored one.
Passwords == {"password", "other password"}
Tokens == 1..NumTokens

(* ------------------------------------------ createAssignmentCycle: state *)

VARIABLES
  heap,         \* the arrays of the call, by reference: "participants" is the
                \* caller's array, "shuffled" the array allocated by [...array]
  given,        \* the contents of the caller's array when the call was made
  cpc,          \* control point of the call
  i,            \* the loop index of the running loop
  assignments,  \* the local array `assignments` being filled
  thrown        \* the message of the Error thrown, "" when none

cycleVars == <<heap, given, cpc, i, assignments, thrown>>

(* --------------------------------------------------- coordinator: state *)

VARIABLES
  exchangeTable,     \* prisma.exchange: exchange id -> row, NoExchange if absent
  participantTable,  \* prisma.participant: exchange id -> user ids, in creation order
  assignmentTable,   \* prisma.assignment: exchange id -> set of committed rows
  inflight,          \* the bag of requests suspended at an await point
  response,          \* the HTTP response sent by the last step, NoResponse if none
  generations,       \* exchange id -> number of generation requests answered 200
  requests           \* number of requests accepted so far

dbVars == <<exchangeTable, participantTable, assignmentTable>>
coordVars == <<dbVars, inflight, response, generations, requests>>

(* -------------------------------------------------- authentication: state *)

VARIABLES
  userTable,     \* prisma.user: email -> row, NoUser if absent
  sessionTable,  \* prisma.session: the set of stored session rows
  now,           \* the clock (new Date()), in days
  drawn,         \* the tokens generateSessionToken has returned
  loggedOut,     \* the tokens a logout has deleted the session of
  validating,    \* the validateSession calls suspended at their delete
  authResult     \* what the last call of SpecAuth returned or threw, NoAuthResult if none

authVars == <<userTable, sessionTable, now, drawn, loggedOut, validating, authResult>>

vars == <<cycleVars, coordVars, authVars>>

(* -------------------------------------------- createAssignmentCycle: code *)

\* Element k (0-based, as in the source) of an array.
At(array, k) == array[k + 1]

\* All arrays of at most n ids.
RECURSIVE ArraysUpTo(_)
ArraysUpTo(n) ==
  IF n = 0 THEN {<<>>}
  ELSE LET shorter == ArraysUpTo(n - 1)
       IN shorter \cup {Append(a, x) : a \in {s \in shorter : Len(s) = n - 1}, x \in Ids}

\* assignment.ts:11  [shuffled[i], shuffled[j]] = [shuffled[j], shuffled[i]]
\* (variant: the second write of the swap is lost)
SwapOverwrite(array, a, b) == [array EXCEPT ![a + 1] = array[b + 1]]
Swap(array, a, b) ==
  [array EXCEPT ![a + 1] = array[b + 1], ![b + 1] = array[a + 1]]

\* assignment.ts:10  j = Math.floor(Math.random() * (i + 1)): any index 0..i
\* (variant: Math.random() * i, an index below i)
RandomIndexBelow(k) == 0..(k - 1)
RandomIndex(k) == 0..k

\* assignment.ts:8  const shuffled = [...array]: the reference the loop writes to.
\* (variant: no copy is made, the loop writes to the caller's array)
ShuffledRefAliased == "participants"
ShuffledRef == "shuffled"

\* assignment.ts:36  participants.length < 2
\* (variant: the floor is 1)
TooFewAllowOne(participants) == Len(participants) < 1
TooFew(participants) == Len(participants) < 2

InsufficientParticipants == "At least 2 participants are required to create assignments"

\* assignment.ts:46  the loop condition i < shuffled.length
\* (variant: the last iteration is missing)
PairLoopStopsEarly(k, shuffled) == k < Len(shuffled) - 1
PairLoopContinues(k, shuffled) == k < Len(shuffled)

\* assignment.ts:47-54  the pair pushed by iteration k
\* (variants: the receiver is the giver; the receiver is two places on; the
\* giver is always the first element)
PairAtSelf(shuffled, k) ==
  [giverId |-> At(shuffled, k), receiverId |-> At(shuffled, k % Len(shuffled))]
PairAtSkip(shuffled, k) ==
  [giverId |-> At(shuffled, k), receiverId |-> At(shuffled, (k + 2) % Len(shuffled))]
PairAtFirstGiver(shuffled, k) ==
  [giverId |-> At(shuffled, 0), receiverId |-> At(shuffled, (k + 1) % Len(shuffled))]
PairAt(shuffled, k) ==
  [giverId |-> At(shuffled, k), receiverId |-> At(shuffled, (k + 1) % Len(shuffled))]


\* assignment.ts:7-14  shuffleArray: every array the draws can produce
RECURSIVE shuffleArrayFrom(_, _)
shuffleArrayFrom(shuffled, k) ==
  IF k > 0
  THEN UNION {shuffleArrayFrom(Swap(shuffled, k, j), k - 1) : j \in RandomIndex(k)}
  ELSE {shuffled}

shuffleArray(array) == shuffleArrayFrom(array, Len(array) - 1)

\* assignment.ts:44-57  the pairing loop from iteration k on
RECURSIVE pairsFrom(_, _, _)
pairsFrom(shuffled, k, acc) ==
  IF PairLoopContinues(k, shuffled)
  THEN pairsFrom(shuffled, k + 1, Append(acc, PairAt(shuffled, k)))
  ELSE acc

\* assignment.ts:32-58  every array createAssignmentCycle can return for an
\* input that passes the length check
createAssignmentCycle(participants) ==
  {pairsFrom(shuffled, 0, <<>>) : shuffled \in shuffleArray(participants)}

(* ---------------------------------------------------- coordinator: code *)

\* exchange.ts:199  participants.length < 3
MinParticipants == 3

NoExchange ==
  [exists |-> FALSE, organizer_id |-> 0, assignments_generated |-> FALSE, code |-> 0]

\* A request: the handler running, the await point it is suspended at and its
\* local variables; afterGeneration records whether a generation request for
\* its exchange had already been answered 200 when it was made.
Request(op, at, user, exchange, pairs, after) ==
  [op |-> op, at |-> at, user |-> user, exchange |-> exchange, pairs |-> pairs,
   afterGeneration |-> after]

NoResponse ==
  [op |-> "", exchange |-> 0, byOrganizer |-> FALSE, afterGeneration |-> FALSE,
   status |-> 0, body |-> ""]

ExchangeNotFound == "Exchange not found"
OnlyOrganizer == "Only the organizer can generate assignments"
AlreadyGenerated == "Assignments have already been generated for this exchange"
TooFewToGenerate == "At least 3 participants are required to generate assignments"
InvalidExchangeCode == "Invalid exchange code"
AlreadyParticipant == "User is already a participant in this exchange"
CodeGenerationFailed == "Failed to generate unique exchange code"
UniqueConstraintFailed == "Unique constraint failed on the fields"
UnexpectedError == "An unexpected error occurred"

\* The fragments errors.ts tests with String.includes that occur in a message.
Fragments(message) ==
  IF message = ExchangeNotFound THEN {"not found"}
  ELSE IF message = OnlyOrganizer THEN {"Only the organizer"}
  ELSE IF message = AlreadyGenerated THEN {"already been generated"}
  ELSE IF message = TooFewToGenerate THEN {"At least 3 participants"}
  ELSE {}

\* errors.ts:82-160  handleApiError
handleApiError(message) ==
  IF message = "Email already exists"
    THEN [status |-> 409, body |-> message]
  ELSE IF message = "Invalid credentials"
    THEN [status |-> 401, body |-> "Invalid email or password"]
  ELSE IF message = InvalidExchangeCode
    THEN [status |-> 404, body |-> InvalidExchangeCode]
  ELSE IF message = AlreadyParticipant
    THEN [status |-> 409, body |-> "You are already a participant in this exchange"]
  ELSE IF "not found" \in Fragments(message)
    THEN [status |-> 404, body |-> message]
  ELSE IF "Only the organizer" \in Fragments(message)
    THEN [status |-> 403, body |-> message]
  ELSE IF \/ "At least 3 participants" \in Fragments(message)
          \/ "already been generated" \in Fragments(message)
          \/ "Missing required fields" \in Fragments(message)
    THEN [status |-> 400, body |-> message]
  ELSE [status |-> 500, body |-> UnexpectedError]

\* prisma.exchange.findUnique({ where: { code } })
ExchangesWithCode(c) ==
  {e \in DOMAIN exchangeTable : exchangeTable[e].exists /\ exchangeTable[e].code = c}

\* exchange.ts:7
MAX_CODE_GENERATION_ATTEMPTS == 10

\* exchange.ts:22-24, design.md:116  code is a unique field of the exchange
\* table: a row is refused when another row has its code.
\* (variant: the table has no such key)
ExchangeCodeKeyMissing(c) == FALSE
ExchangeCodeKeyTaken(c) == ExchangesWithCode(c) # {}

\* exchange.ts:64-73  the row tx.exchange.create stores
NewExchange(u, c) ==
  [exists |-> TRUE, organizer_id |-> u, assignments_generated |-> FALSE, code |-> c]

\* exchange.ts:76-81  the participant row of the organizer, created in the
\* transaction that creates the exchange
\* (variant: the row is not created)
FirstParticipantsNone(u) == <<>>
FirstParticipants(u) == <<u>>

\* exchange.ts:159-166  getParticipants
getParticipants(e) == participantTable[e]

\* exchange.ts:186  exchange.organizer_id !== userId
\* (variant: every user may request the generation)
NotOrganizerNever(row, u) == FALSE
NotOrganizer(row, u) == row.organizer_id # u

\* exchange.ts:199  participants.length < 3
\* (variant: the coordinator relies on the floor of the generator)
BelowGeneratorFloor(participants) == TooFew(participants)
BelowMinParticipants(participants) == Len(participants) < MinParticipants

\* The key (exchange_id, user_id) of the participant table: a row for the
\* user is refused when the exchange already has one.
\* (variant: the table has no such key)
ParticipantKeyMissing(participants, u) == FALSE
ParticipantKeyTaken(participants, u) ==
  \E k \in 1..Len(participants) : participants[k] = u

\* exchange.ts:191  the check that rejects a second generation
\* (variant: the check is missing)
AlreadyGeneratedCheckMissing(row) == FALSE
AlreadyGeneratedCheck(row) == row.assignments_generated

\* The key (exchange_id, giver_id) of the assignment table: a row for giver is
\* refused when the exchange already has one.
AssignmentKeyTaken(rows, giver) == \E r \in rows : r.giver_id = giver

\* exchange.ts:207-228  the transaction rolls back when one of its creates is
\* refused: a giver that already has a row, or two pairs with one giver.
\* (variant: a refused create is ignored, as with skipDuplicates)
TransactionNeverAborts(rows, pairs) == FALSE
TransactionAborts(rows, pairs) ==
  \/ \E k \in 1..Len(pairs) : AssignmentKeyTaken(rows, pairs[k].giverId)
  \/ \E a, b \in 1..Len(pairs) : a # b /\ pairs[a].giverId = pairs[b].giverId

\* exchange.ts:222-226  the transaction sets assignments_generated with the
\* rows, in one commit
\* (variant: the update of the flag is lost)
MarkGeneratedLost(row) == row
MarkGenerated(row) == [row EXCEPT !.assignments_generated = TRUE]

\* exchange.ts:222-225  tx.exchange.update({ where: { id: exchangeId }, ... })
\* (variant: the update has no where clause and marks every exchange)
ExchangeUpdateMany(table, e) == [x \in DOMAIN table |-> MarkGenerated(table[x])]
ExchangeUpdate(table, e) == [table EXCEPT ![e] = MarkGenerated(@)]

\* exchange.ts:209-219  the rows the transaction creates
AssignmentRows(pairs) ==
  {[giver_id |-> pairs[k].giverId, receiver_id |-> pairs[k].receiverId] :
     k \in 1..Len(pairs)}

(* ------------------------------------------------------ read side: code *)

NotAParticipant == "You are not a participant in this exchange"
NotGeneratedYet == "Assignments have not been generated yet"

\* The name and the email address stored for a user.
UserName(u) == <<"name", u>>
UserEmail(u) == <<"email", u>>

\* assignment/[exchangeId]/route.ts:31-40  participant.findUnique by
\* (exchange_id, user_id) finds no row
\* (variant: the membership check is missing)
NoParticipantRowNever(participants, u) == FALSE
NoParticipantRow(participants, u) == \A k \in 1..Len(participants) : participants[k] # u

\* assignment/[exchangeId]/route.ts:50-56  assignment.findUnique by
\* (exchange_id, giver_id): the rows it can find
\* (variant: the lookup is by exchange_id alone)
FindAssignmentOfExchange(rows, u) == rows
FindAssignment(rows, u) == {r \in rows : r.giver_id = u}

\* assignment/[exchangeId]/route.ts:78-84  the JSON body of a success
ReceiverBody(row) ==
  [receiver_name |-> UserName(row.receiver_id),
   receiver_email |-> UserEmail(row.receiver_id)]

\* assignment/[exchangeId]/route.ts:30-84  GET for the authenticated user u,
\* over the participants and the assignment rows of the exchange
getAssignment(participants, rows, u) ==
  IF NoParticipantRow(participants, u)
    THEN [status |-> 403, body |-> NotAParticipant, shown |-> {}]
  ELSE IF FindAssignment(rows, u) = {}
    THEN [status |-> 404, body |-> NotGeneratedYet, shown |-> {}]
  ELSE LET assignment == CHOOSE r \in FindAssignment(rows, u) : TRUE
       IN [status |-> 200, body |-> ReceiverBody(assignment), shown |-> {assignment}]

\* page.tsx:157-205  the rows fetched for the "All Assignments" section
allAssignments(exchange, rows, u) ==
  IF exchange.organizer_id = u /\ exchange.assignments_generated THEN rows ELSE {}

\* page.tsx:141-155  the row fetched for the "Your Assignment" section
userAssignment(exchange, rows, u) ==
  IF exchange.assignments_generated THEN FindAssignment(rows, u) ELSE {}

\* page.tsx:110-426  ExchangeDetailPage for the authenticated user u
exchangeDetailPage(exchange, participants, rows, u) ==
  IF ~exchange.exists
    THEN [status |-> 404, body |-> "not found", shown |-> {}]
  ELSE IF u \notin {participants[k] : k \in 1..Len(participants)}
    THEN [status |-> 307, body |-> "/dashboard", shown |-> {}]
  ELSE [status |-> 200, body |-> "exchange page",
        shown |-> userAssignment(exchange, rows, u) \cup allAssignments(exchange, rows, u)]

\* What a read answers: the response with the user it is sent to and the
\* assignment rows (giver, receiver) it lets that user see.
View(op, u, e, answer) ==
  [op |-> op, exchange |-> e,
   byOrganizer |-> exchangeTable[e].exists /\ exchangeTable[e].organizer_id = u,
   afterGeneration |-> exchangeTable[e].assignments_generated,
   status |-> answer.status, body |-> answer.body,
   user |-> u, shown |-> answer.shown]

(* -------------------------------------------------- authentication: code *)

\* auth.ts:8
SESSION_EXPIRY_DAYS == 7

\* auth.ts:133  return null
Null == 0

NoUser == [exists |-> FALSE, id |-> Null, password_hash |-> <<>>]

InvalidCredentials == "Invalid credentials"
EmailExists == "Email already exists"
RecordNotFound == "Record to delete does not exist"

\* auth.ts:29-31  hashPassword
hashPassword(password) == <<"bcrypt", password>>

\* auth.ts:36-38  verifyPassword
\* (variant: every password is accepted)
verifyPasswordAlways(password, hash) == TRUE
verifyPassword(password, hash) == hash = hashPassword(password)

\* auth.ts:13-15  generateSessionToken: 32 random bytes, a token that no
\* login has drawn before (two equal draws of 256 bits are left out).  Tokens
\* are opaque, so the least unused one stands for any of them.
generateSessionToken ==
  {t \in Tokens \ drawn : \A other \in Tokens \ drawn : t <= other}

\* auth.ts:20-24  getSessionExpiry
getSessionExpiry == now + SESSION_EXPIRY_DAYS

\* auth.ts:137  session.expires_at < new Date()
Expired(session) == session.expires_at < now

\* prisma.session.findUnique({ where: { token } })
SessionsWithToken(token) == {x \in sessionTable : x.token = token}

\* auth.ts:117-119  prisma.session.delete({ where: { token } })
\* (variant: the row is left in the table)
SessionKept(token) == sessionTable
SessionDeleted(token) == {x \in sessionTable : x.token # token}

\* auth.ts:67-73  the id of the row prisma.user.create stores for an email:
\* one id per row, and one row per email
UserId(email) == email

\* What a call returned (value) or threw (error), with what it was called
\* with: the token, the stored user whose email and password were given, Null
\* if there is none (account), and whether a logout had deleted the session of
\* the token when the call was made (afterLogout).
AuthResult(op, account, token, after, value, error) ==
  [op |-> op, account |-> account, token |-> token,
   afterLogout |-> after, value |-> value, error |-> error]

NoAuthResult == AuthResult("", Null, 0, FALSE, Null, "")

\* The id of the stored user with this email and this password, Null if none.
Account(email, password) ==
  IF /\ userTable[email].exists
     /\ userTable[email].password_hash = <<"bcrypt", password>>
  THEN userTable[email].id
  ELSE Null

AuthIdle ==
  /\ userTable = [m \in Emails |-> NoUser]
  /\ sessionTable = {}
  /\ now = 0
  /\ drawn = {}
  /\ loggedOut = {}
  /\ validating = {}
  /\ authResult = NoAuthResult

CoordIdle ==
  /\ exchangeTable = [e \in ExchangeIds |-> NoExchange]
  /\ participantTable = [e \in ExchangeIds |-> <<>>]
  /\ assignmentTable = [e \in ExchangeIds |-> {}]
  /\ inflight = EmptyBag
  /\ requests = 0
  /\ response = NoResponse
  /\ generations = [e \in ExchangeIds |-> 0]

CycleIdle ==
  /\ given = <<>>
  /\ heap = [participants |-> <<>>, shuffled |-> <<>>]
  /\ cpc = "call"
  /\ i = 0
  /\ assignments = <<>>
  /\ thrown = ""

(* --------------------------------------- createAssignmentCycle: the steps *)

InitCycle ==
  /\ given \in ArraysUpTo(MaxLen)
  /\ heap = [participants |-> given, shuffled |-> <<>>]
  /\ cpc = "call"
  /\ i = 0
  /\ assignments = <<>>
  /\ thrown = ""
  /\ CoordIdle
  /\ AuthIdle

\* assignment.ts:36-38
CycleThrow ==
  /\ cpc = "call"
  /\ TooFew(heap.participants)
  /\ thrown' = InsufficientParticipants
  /\ cpc' = "thrown"
  /\ UNCHANGED <<heap, given, i, assignments>>
  /\ UNCHANGED <<coordVars, authVars>>

\* assignment.ts:41, 8-9  the copy and the initialisation of the shuffle loop
CycleCopy ==
  /\ cpc = "call"
  /\ ~TooFew(heap.participants)
  /\ heap' = [heap EXCEPT ![ShuffledRef] = heap.participants]
  /\ i' = Len(heap.participants) - 1
  /\ cpc' = "shuffle"
  /\ UNCHANGED <<given, assignments, thrown>>
  /\ UNCHANGED <<coordVars, authVars>>

\* assignment.ts:9-12  one iteration of the shuffle loop
ShuffleStep ==
  /\ cpc = "shuffle"
  /\ i > 0
  /\ \E j \in RandomIndex(i) :
       heap' = [heap EXCEPT ![ShuffledRef] = Swap(heap[ShuffledRef], i, j)]
  /\ i' = i - 1
  /\ UNCHANGED <<given, cpc, assignments, thrown>>
  /\ UNCHANGED <<coordVars, authVars>>

\* assignment.ts:9, 13, 44, 46  the shuffle loop ends, the pairing loop starts
ShuffleReturn ==
  /\ cpc = "shuffle"
  /\ ~(i > 0)
  /\ cpc' = "pair"
  /\ i' = 0
  /\ assignments' = <<>>
  /\ UNCHANGED <<heap, given, thrown>>
  /\ UNCHANGED <<coordVars, authVars>>

\* assignment.ts:46-55  one iteration of the pairing loop
PairStep ==
  /\ cpc = "pair"
  /\ PairLoopContinues(i, heap[ShuffledRef])
  /\ assignments' = Append(assignments, PairAt(heap[ShuffledRef], i))
  /\ i' = i + 1
  /\ UNCHANGED <<heap, given, cpc, thrown>>
  /\ UNCHANGED <<coordVars, authVars>>

\* assignment.ts:46, 57  the pairing loop ends and the array is returned
CycleReturn ==
  /\ cpc = "pair"
  /\ ~PairLoopContinues(i, heap[ShuffledRef])
  /\ cpc' = "returned"
  /\ UNCHANGED <<heap, given, i, assignments, thrown>>
  /\ UNCHANGED <<coordVars, authVars>>

NextCycle ==
  \/ CycleThrow
  \/ CycleCopy
  \/ ShuffleStep
  \/ ShuffleReturn
  \/ PairStep
  \/ CycleReturn

SpecCycle == InitCycle /\ [][NextCycle]_vars

\* The call is synchronous code that nothing suspends: a statement that can
\* run does run.
SpecCycleLive == SpecCycle /\ WF_vars(NextCycle)

(* ------------------------------- createAssignmentCycle: the checked claims *)

IdSet(array) == {array[k] : k \in 1..Len(array)}

Distinct(array) ==
  \A a, b \in 1..Len(array) : a # b => array[a] # array[b]

\* A call the contract covers: N >= 2 participants with pairwise distinct ids.
ValidCall == Len(given) >= 2 /\ Distinct(given)

Returned == cpc = "returned"

\* The receivers of the pairs whose giver is in S.
Receivers(pairs, S) ==
  {pairs[k].receiverId : k \in {n \in 1..Len(pairs) : pairs[n].giverId \in S}}

\* Where n steps along giver->receiver lead from the ids in S.
RECURSIVE After(_, _, _)
After(pairs, S, n) ==
  IF n = 0 THEN S ELSE After(pairs, Receivers(pairs, S), n - 1)

SingleCycle(pairs, ids) ==
  LET N == Cardinality(ids)
  IN \A s \in ids :
       /\ \A k \in 0..N : Cardinality(After(pairs, {s}, k)) = 1
       /\ After(pairs, {s}, N) = {s}
       /\ \A k \in 1..(N - 1) : After(pairs, {s}, k) # {s}
       /\ UNION {After(pairs, {s}, k) : k \in 0..(N - 1)} = ids

Occurrences(pairs, field, id) ==
  Cardinality({k \in 1..Len(pairs) : pairs[k][field] = id})

\* C1: for N >= 2 participants with distinct ids and every sequence of draws,
\* the returned giver->receiver relation is one cycle of length N: from any
\* participant N steps visit everybody once and the N-th returns to the start.
C1_SingleCycle ==
  (Returned /\ ValidCall) => SingleCycle(assignments, IdSet(given))

C1_Witness ==
  /\ Returned /\ ValidCall
  /\ Len(given) = MaxLen
  /\ heap.shuffled # given

\* C2: for a valid call every input participant is the giver of exactly one
\* returned pair, and every giver is an input participant.
C2_EachGiverOnce ==
  (Returned /\ ValidCall) =>
    /\ \A id \in IdSet(given) : Occurrences(assignments, "giverId", id) = 1
    /\ \A k \in 1..Len(assignments) : assignments[k].giverId \in IdSet(given)

C2_Witness ==
  /\ Returned /\ ValidCall
  /\ Len(given) >= 3
  /\ assignments[1].giverId # given[1]

\* C3: for a valid call every input participant is the receiver of exactly one
\* returned pair, and every receiver is an input participant.
C3_EachReceiverOnce ==
  (Returned /\ ValidCall) =>
    /\ \A id \in IdSet(given) : Occurrences(assignments, "receiverId", id) = 1
    /\ \A k \in 1..Len(assignments) : assignments[k].receiverId \in IdSet(given)

C3_Witness ==
  /\ Returned /\ ValidCall
  /\ Len(given) >= 3
  /\ assignments[1].receiverId = given[1]

\* C4: for a valid call no returned pair has giverId equal to receiverId.
C4_NoSelfAssignment ==
  (Returned /\ ValidCall) =>
    \A k \in 1..Len(assignments) : assignments[k].giverId # assignments[k].receiverId

C4_Witness ==
  /\ Returned /\ ValidCall
  /\ Len(given) >= 3
  /\ assignments[Len(assignments)].receiverId = assignments[1].giverId
  /\ heap.shuffled = given

\* C5: for every input of length N >= 2 (distinct ids or not) the output holds
\* exactly N pairs and every id in it is the id of an input participant.
C5_ValidIdentifiers ==
  (Returned /\ Len(given) >= 2) =>
    /\ Len(assignments) = Len(given)
    /\ \A k \in 1..Len(assignments) :
         /\ assignments[k].giverId \in IdSet(given)
         /\ assignments[k].receiverId \in IdSet(given)

C5_Witness ==
  /\ Returned
  /\ Len(given) = MaxLen
  /\ Cardinality(IdSet(given)) < NumIds

\* C6: a call with 0 or 1 participants throws the insufficient-participants
\* error before any shuffling or pairing; a call either throws or returns a
\* complete list of N pairs, never a partial one.
C6_FloorEnforced ==
  /\ Len(given) < 2 =>
       /\ cpc \in {"call", "thrown"}
       /\ heap.shuffled = <<>>
       /\ assignments = <<>>
  /\ cpc = "thrown" =>
       /\ Len(given) < 2
       /\ thrown = InsufficientParticipants
  /\ cpc # "thrown" => thrown = ""
  /\ Returned => Len(assignments) = Len(given)

C6_Witness ==
  /\ cpc = "thrown"
  /\ Len(given) = 1

\* C7: a call with exactly 2 distinct participants A, B returns, whatever the
\* shuffle draws, exactly the two pairs A->B and B->A.
C7_TwoParticipants ==
  (Len(given) = 2 /\ Distinct(given)) =>
    /\ cpc # "thrown"
    /\ Returned =>
         /\ Len(assignments) = 2
         /\ {assignments[k] : k \in 1..Len(assignments)} =
              { [giverId |-> given[1], receiverId |-> given[2]],
                [giverId |-> given[2], receiverId |-> given[1]] }

C7_Witness ==
  /\ Returned
  /\ Len(given) = 2 /\ Distinct(given)
  /\ assignments[1].giverId = given[2]

\* C8: the call never changes the caller's array: at every point of the call,
\* and after it has returned or thrown, the array holds the same elements in
\* the same order as when the call was made.
C8_InputNotMutated == heap.participants = given

C8_Witness ==
  /\ Returned
  /\ Len(given) >= 3
  /\ heap.shuffled # given
  /\ heap.participants = given

(* --------------------------------------------------- coordinator: steps *)

\* A new request is taken (the bounds on the requests of a run).
Accept ==
  /\ BagCardinality(inflight) < MaxInFlight
  /\ requests < MaxRequests
  /\ requests' = requests + 1

Suspended(at) == {r \in BagToSet(inflight) : r.at = at}

\* The response to request r, with what it answers: the handler, the exchange,
\* whether the user is the organizer of that exchange, and afterGeneration.
Response(r, answer) ==
  [op |-> r.op, exchange |-> r.exchange,
   byOrganizer |-> /\ r.exchange \in DOMAIN exchangeTable
                   /\ exchangeTable[r.exchange].exists
                   /\ exchangeTable[r.exchange].organizer_id = r.user,
   afterGeneration |-> r.afterGeneration,
   status |-> answer.status, body |-> answer.body]

\* Request r, new or suspended as `was`, sends its response and ends.
Respond(was, r, answer) ==
  /\ response' = Response(r, answer)
  /\ inflight' = inflight (-) SetToBag(was)

\* Request r, new or suspended as `was`, suspends at its next await point.
Suspend(was, r) ==
  /\ inflight' = (inflight (-) SetToBag(was)) (+) SetToBag({r})
  /\ response' = NoResponse

\* The exchanges not yet created (the bound on createExchange).
FreeExchangeIds == {e \in ExchangeIds : ~exchangeTable[e].exists}

\* exchange.ts:38-87  createExchange(u): generateUniqueExchangeCode returns a
\* code no exchange has, or gives up when every draw hit a code in use; the
\* transaction creates the exchange and the organizer's participant row.
CreateExchange(u) ==
  /\ Accept
  /\ FreeExchangeIds # {}
  /\ \E c \in Codes :
       IF ExchangesWithCode(c) # {}
       THEN /\ Respond({}, Request("create", "", u, 0, <<>>, FALSE),
                       handleApiError(CodeGenerationFailed))
            /\ UNCHANGED dbVars
       ELSE LET e == CHOOSE x \in FreeExchangeIds : \A y \in FreeExchangeIds : x <= y
            IN /\ exchangeTable' = [exchangeTable EXCEPT ![e] = NewExchange(u, c)]
               /\ participantTable' = [participantTable EXCEPT ![e] = FirstParticipants(u)]
               /\ Respond({}, Request("create", "", u, e, <<>>, FALSE),
                          [status |-> 201, body |-> "exchange"])
               /\ UNCHANGED assignmentTable
  /\ UNCHANGED generations

\* join/route.ts:32, exchange.ts:122-129  joinExchange looks the code up
JoinFindExchange(u, c) ==
  /\ Accept
  /\ IF ExchangesWithCode(c) = {}
     THEN Respond({}, Request("join", "", u, 0, <<>>, FALSE),
                  handleApiError(InvalidExchangeCode))
     ELSE LET e == CHOOSE x \in ExchangesWithCode(c) : TRUE
          IN Suspend({}, Request("join", "findParticipant", u, e, <<>>, FALSE))
  /\ UNCHANGED <<dbVars, generations>>

\* exchange.ts:131-143  the check for an existing participant row
JoinFindParticipant(r) ==
  /\ r.op = "join" /\ r.at = "findParticipant"
  /\ IF r.user \in IdSet(participantTable[r.exchange])
     THEN Respond({r}, r, handleApiError(AlreadyParticipant))
     ELSE Suspend({r}, [r EXCEPT !.at = "create"])
  /\ UNCHANGED <<dbVars, generations, requests>>

\* exchange.ts:145-153  the participant row is created; (exchange_id, user_id)
\* is unique, so the create is refused when the row has appeared meanwhile.
JoinCreate(r) ==
  /\ r.op = "join" /\ r.at = "create"
  /\ IF ParticipantKeyTaken(participantTable[r.exchange], r.user)
     THEN /\ Respond({r}, r, handleApiError(UniqueConstraintFailed))
          /\ UNCHANGED participantTable
     ELSE /\ participantTable' = [participantTable EXCEPT ![r.exchange] = Append(@, r.user)]
          /\ Respond({r}, r, [status |-> 200, body |-> "participant"])
  /\ UNCHANGED <<exchangeTable, assignmentTable, generations, requests>>

\* assign/route.ts:24, exchange.ts:176-193  generateAssignments(e, u) reads
\* the exchange and checks the organizer and the generated flag.
GenFindExchange(u, e) ==
  /\ Accept
  /\ LET r == Request("generate", "getParticipants", u, e, <<>>, generations[e] > 0)
     IN IF ~exchangeTable[e].exists
          THEN Respond({}, r, handleApiError(ExchangeNotFound))
        ELSE IF NotOrganizer(exchangeTable[e], u)
          THEN Respond({}, r, handleApiError(OnlyOrganizer))
        ELSE IF AlreadyGeneratedCheck(exchangeTable[e])
          THEN Respond({}, r, handleApiError(AlreadyGenerated))
        ELSE Suspend({}, r)
  /\ UNCHANGED <<dbVars, generations>>

\* exchange.ts:195-204  the participants are read and counted and the cycle
\* is computed
GenGetParticipants(r) ==
  /\ r.op = "generate" /\ r.at = "getParticipants"
  /\ LET participants == getParticipants(r.exchange)
     IN IF BelowMinParticipants(participants)
          THEN Respond({r}, r, handleApiError(TooFewToGenerate))
        ELSE IF TooFew(participants)
          THEN Respond({r}, r, handleApiError(InsufficientParticipants))
        ELSE \E assignmentPairs \in createAssignmentCycle(participants) :
               Suspend({r}, [r EXCEPT !.at = "transaction", !.pairs = assignmentPairs])
  /\ UNCHANGED <<dbVars, generations, requests>>

\* exchange.ts:206-230, assign/route.ts:26-36  the transaction creates the
\* rows and sets the flag, or rolls back
GenTransaction(r) ==
  /\ r.op = "generate" /\ r.at = "transaction"
  /\ LET e == r.exchange
     IN IF TransactionAborts(assignmentTable[e], r.pairs)
        THEN /\ Respond({r}, r, handleApiError(UniqueConstraintFailed))
             /\ UNCHANGED <<dbVars, generations>>
        ELSE /\ assignmentTable' = [assignmentTable EXCEPT ![e] =
                  @ \cup AssignmentRows(r.pairs)]
             /\ exchangeTable' = ExchangeUpdate(exchangeTable, e)
             /\ generations' = [generations EXCEPT ![e] = @ + 1]
             /\ Respond({r}, r, [status |-> 200, body |-> "Assignments generated successfully"])
             /\ UNCHANGED participantTable
  /\ UNCHANGED requests

Init == CycleIdle /\ CoordIdle /\ AuthIdle

Next ==
  \/ \E u \in Users : CreateExchange(u) /\ UNCHANGED <<cycleVars, authVars>>
  \/ \E u \in Users, c \in Codes : JoinFindExchange(u, c) /\ UNCHANGED <<cycleVars, authVars>>
  \/ \E r \in BagToSet(inflight) : JoinFindParticipant(r) /\ UNCHANGED <<cycleVars, authVars>>
  \/ \E r \in BagToSet(inflight) : JoinCreate(r) /\ UNCHANGED <<cycleVars, authVars>>
  \/ \E u \in Users, e \in ExchangeIds : GenFindExchange(u, e) /\ UNCHANGED <<cycleVars, authVars>>
  \/ \E r \in BagToSet(inflight) : GenGetParticipants(r) /\ UNCHANGED <<cycleVars, authVars>>
  \/ \E r \in BagToSet(inflight) : GenTransaction(r) /\ UNCHANGED <<cycleVars, authVars>>

Spec == Init /\ [][Next]_vars

(* ------------------------------------------------------ read side: steps *)

\* assignment/[exchangeId]/route.ts:11-88  GET /api/assignment/[exchangeId]
\* by the authenticated user u.  Its two reads are of rows that are never
\* deleted or changed, so the handler is taken in one step.
GetAssignment(u, e) ==
  /\ response' = View("assignment", u, e,
                      getAssignment(getParticipants(e), assignmentTable[e], u))
  /\ UNCHANGED <<dbVars, inflight, generations, requests>>

\* page.tsx:110-426  the exchange page rendered for the authenticated user u
ViewExchangePage(u, e) ==
  /\ response' = View("page", u, e,
                      exchangeDetailPage(exchangeTable[e], getParticipants(e),
                                         assignmentTable[e], u))
  /\ UNCHANGED <<dbVars, inflight, generations, requests>>

\* The handlers that read only.
Reads == {"assignment", "page"}

\* No request is being served, and no read has been served yet.
Serial == inflight = EmptyBag /\ response.op \notin Reads

\* The users of SpecRead: as many as an exchange needs for its generation,
\* and one more.
Readers == 1..(MinParticipants + 1)

\* The application with its reads, for the users Readers: the requests are
\* served one at a time (the races of the requests that write are the subject
\* of Spec; a write changes the tables in its last step only, so a read
\* served while it is suspended sees the tables of the state it started in),
\* and a run ends with its read (a read changes no table, so what can follow
\* it is what can follow the state it was served in).
NextRead ==
  \/ \E u \in Readers : Serial /\ CreateExchange(u) /\ UNCHANGED <<cycleVars, authVars>>
  \/ \E u \in Readers, c \in Codes : Serial /\ JoinFindExchange(u, c) /\ UNCHANGED <<cycleVars, authVars>>
  \/ \E r \in BagToSet(inflight) : JoinFindParticipant(r) /\ UNCHANGED <<cycleVars, authVars>>
  \/ \E r \in BagToSet(inflight) : JoinCreate(r) /\ UNCHANGED <<cycleVars, authVars>>
  \/ \E u \in Readers, e \in ExchangeIds : Serial /\ GenFindExchange(u, e) /\ UNCHANGED <<cycleVars, authVars>>
  \/ \E r \in BagToSet(inflight) : GenGetParticipants(r) /\ UNCHANGED <<cycleVars, authVars>>
  \/ \E r \in BagToSet(inflight) : GenTransaction(r) /\ UNCHANGED <<cycleVars, authVars>>
  \/ \E u \in Readers, e \in ExchangeIds : Serial /\ GetAssignment(u, e) /\ UNCHANGED <<cycleVars, authVars>>
  \/ \E u \in Readers, e \in ExchangeIds : Serial /\ ViewExchangePage(u, e) /\ UNCHANGED <<cycleVars, authVars>>

SpecRead == Init /\ [][NextRead]_vars

(* ------------------------------------------ coordinator: the checked claims *)

\* C9: under every interleaving of the steps of concurrent generateAssignments
\* requests of the organizer for one exchange, at most one of them is answered
\* with success: no exchange ever counts two successful generations.
C9_NeverBothSucceed == \A e \in ExchangeIds : generations[e] <= 1

\* Two requests had both passed the flag check; one has committed and the
\* other, made before that commit, has just been refused by the transaction.
C9_Witness ==
  /\ response.op = "generate"
  /\ response.byOrganizer
  /\ ~response.afterGeneration
  /\ response.status = 500
  /\ generations[response.exchange] = 1

\* C10: once a generation has succeeded for an exchange, every generation
\* request the organizer makes afterwards is answered 400 'Assignments have
\* already been generated for this exchange', and no step changes the stored
\* assignment rows of that exchange any more.
C10_OneShot ==
  /\ [](( /\ response.op = "generate"
          /\ response.byOrganizer
          /\ response.afterGeneration )
        => ( /\ response.status = 400
             /\ response.body = AlreadyGenerated ))
  /\ [][\A e \in ExchangeIds :
          generations[e] > 0 => assignmentTable'[e] = assignmentTable[e]]_vars

C10_Witness ==
  /\ response.op = "generate"
  /\ response.byOrganizer
  /\ response.afterGeneration
  /\ response.status = 400
  /\ assignmentTable[response.exchange] # {}

\* The request whose step has just been taken: one copy of it has left the bag.
Stepped(r) == CopiesIn(r, inflight') < CopiesIn(r, inflight)

\* C11: a generation request of a user who is not the organizer of the
\* (existing) exchange is answered 403 'Only the organizer can generate
\* assignments', whatever the participant count and the generation state, and
\* the step answering it changes no table; every step that changes the rows
\* or the generated flag of an exchange answers a request of its organizer.
C11_OnlyOrganizer ==
  /\ [](( /\ response.op = "generate"
          /\ response.exchange \in ExchangeIds
          /\ exchangeTable[response.exchange].exists
          /\ ~response.byOrganizer )
        => ( /\ response.status = 403
             /\ response.body = OnlyOrganizer ))
  /\ [][( /\ response'.op = "generate"
          /\ ~response'.byOrganizer ) => UNCHANGED dbVars]_vars
  /\ [][\A e \in ExchangeIds :
          ( \/ assignmentTable'[e] # assignmentTable[e]
            \/ exchangeTable'[e].assignments_generated
                 # exchangeTable[e].assignments_generated )
          => ( /\ response'.op = "generate"
               /\ response'.exchange = e
               /\ response'.byOrganizer )]_vars

\* A non-organizer has just been refused for an exchange that has its three
\* participants and its assignments.
C11_Witness ==
  /\ response.op = "generate"
  /\ ~response.byOrganizer
  /\ response.status = 403
  /\ response.afterGeneration
  /\ Len(participantTable[response.exchange]) >= MinParticipants
  /\ assignmentTable[response.exchange] # {}

\* C12: a generation request of the organizer that finds fewer than 3
\* participants (exactly 2 included) is answered 400 'At least 3 participants
\* are required to generate assignments'; its step computes no cycle (the
\* request ends, none is left waiting with pairs) and changes no table.
C12_MinimumThree ==
  [][\A r \in BagToSet(inflight) :
       ( /\ Stepped(r)
         /\ r.op = "generate" /\ r.at = "getParticipants"
         /\ Len(participantTable[r.exchange]) < 3 )
       => ( /\ response'.op = "generate"
            /\ response'.status = 400
            /\ response'.body = TooFewToGenerate
            /\ inflight' = inflight (-) SetToBag({r})
            /\ UNCHANGED dbVars )]_vars

\* The organizer has just been refused with exactly two participants.
C12_Witness ==
  /\ response.op = "generate"
  /\ response.byOrganizer
  /\ response.status = 400
  /\ response.body = TooFewToGenerate
  /\ Len(participantTable[response.exchange]) = 2

(* -------------------------------------------------- authentication: steps *)

\* auth.ts:44-76  signup(email, password, name)
Signup(email, password) ==
  /\ IF userTable[email].exists
     THEN /\ authResult' = AuthResult("signup", Null, 0, FALSE, Null, EmailExists)
          /\ UNCHANGED userTable
     ELSE LET user == [exists |-> TRUE, id |-> UserId(email),
                       password_hash |-> hashPassword(password)]
          IN /\ userTable' = [userTable EXCEPT ![email] = user]
             /\ authResult' = AuthResult("signup", Null, 0, FALSE, user.id, "")
  /\ UNCHANGED <<sessionTable, now, drawn, loggedOut, validating>>

\* auth.ts:82-111  login(email, password)
Login(email, password) ==
  /\ IF \/ ~userTable[email].exists
        \/ ~verifyPassword(password, userTable[email].password_hash)
     THEN /\ authResult' = AuthResult("login", Account(email, password), 0, FALSE, Null,
                                      InvalidCredentials)
          /\ UNCHANGED <<sessionTable, drawn>>
     ELSE \E token \in generateSessionToken :
            LET session == [token |-> token, user_id |-> userTable[email].id,
                            expires_at |-> getSessionExpiry]
            IN /\ sessionTable' = sessionTable \cup {session}
               /\ drawn' = drawn \cup {token}
               /\ authResult' = AuthResult("login", Account(email, password), token, FALSE,
                                           session.user_id, "")
  /\ UNCHANGED <<userTable, now, loggedOut, validating>>

\* auth.ts:116-120  logout(sessionToken): the delete throws when no row has
\* the token
Logout(token) ==
  /\ IF SessionsWithToken(token) = {}
     THEN /\ authResult' = AuthResult("logout", Null, token, token \in loggedOut,
                                      Null, RecordNotFound)
          /\ UNCHANGED <<sessionTable, loggedOut>>
     ELSE /\ sessionTable' = SessionDeleted(token)
          /\ loggedOut' = loggedOut \cup {token}
          /\ authResult' = AuthResult("logout", Null, token, token \in loggedOut, Null, "")
  /\ UNCHANGED <<userTable, now, drawn, validating>>

\* auth.ts:126-137, 145  validateSession(sessionToken) reads the session: it
\* returns null when there is none, goes on to delete an expired one, and
\* returns the user of any other
ValidateFind(token) ==
  /\ LET found == SessionsWithToken(token)
         after == token \in loggedOut
     IN IF found = {}
          THEN /\ authResult' = AuthResult("validateSession", Null, token, after, Null, "")
               /\ UNCHANGED validating
        ELSE LET session == CHOOSE x \in found : TRUE
             IN IF Expired(session)
                  THEN /\ validating' = validating \cup {[token |-> token, afterLogout |-> after]}
                       /\ authResult' = NoAuthResult
                  ELSE /\ authResult' = AuthResult("validateSession", Null, token, after,
                                                   session.user_id, "")
                       /\ UNCHANGED validating
  /\ UNCHANGED <<userTable, sessionTable, now, drawn, loggedOut>>

\* auth.ts:138-142  the expired session is deleted and null is returned; the
\* delete throws when the row has gone meanwhile
ValidateDelete(call) ==
  /\ call \in validating
  /\ validating' = validating \ {call}
  /\ IF SessionsWithToken(call.token) = {}
     THEN /\ authResult' = AuthResult("validateSession", Null, call.token,
                                      call.afterLogout, Null, RecordNotFound)
          /\ UNCHANGED sessionTable
     ELSE /\ sessionTable' = {x \in sessionTable : x.token # call.token}
          /\ authResult' = AuthResult("validateSession", Null, call.token,
                                      call.afterLogout, Null, "")
  /\ UNCHANGED <<userTable, now, drawn, loggedOut>>

\* Time passes: as long as a session lasts.
Tick ==
  /\ now < MaxTicks * SESSION_EXPIRY_DAYS
  /\ now' = now + SESSION_EXPIRY_DAYS
  /\ authResult' = NoAuthResult
  /\ UNCHANGED <<userTable, sessionTable, drawn, loggedOut, validating>>

NextAuth ==
  \/ \E m \in Emails, p \in Passwords : Signup(m, p) /\ UNCHANGED <<cycleVars, coordVars>>
  \/ \E m \in Emails, p \in Passwords : Login(m, p) /\ UNCHANGED <<cycleVars, coordVars>>
  \/ \E t \in Tokens : Logout(t) /\ UNCHANGED <<cycleVars, coordVars>>
  \/ \E t \in Tokens : ValidateFind(t) /\ UNCHANGED <<cycleVars, coordVars>>
  \/ \E call \in validating : ValidateDelete(call) /\ UNCHANGED <<cycleVars, coordVars>>
  \/ Tick /\ UNCHANGED <<cycleVars, coordVars>>

SpecAuth == Init /\ [][NextAuth]_vars

\* The password of the signups of SpecJoin and SpecGate: no step of a join
\* or of the middleware reads it.
SignupPassword == CHOOSE p \in Passwords : TRUE

(* --------------------------------------------------- middleware: the steps *)

\* Path names, character by character.
Dashboard == <<"/", "d", "a", "s", "h", "b", "o", "a", "r", "d">>
ExchangePage == <<"/", "e", "x", "c", "h", "a", "n", "g", "e", "/", "1">>
LoginPage == <<"/", "l", "o", "g", "i", "n">>
SignupPage == <<"/", "s", "i", "g", "n", "u", "p">>
HomePage == <<"/">>

\* The paths requested in SpecGate.
Paths == {Dashboard, ExchangePage, LoginPage, HomePage}

\* FormError.tsx:159  PROTECTED_ROUTES
PROTECTED_ROUTES == {Dashboard, <<"/", "e", "x", "c", "h", "a", "n", "g", "e">>}

\* FormError.tsx:162  AUTH_ROUTES
AUTH_ROUTES == {LoginPage, SignupPage}

\* String.prototype.startsWith
StartsWith(pathname, route) ==
  /\ Len(route) <= Len(pathname)
  /\ SubSeq(pathname, 1, Len(route)) = route

\* FormError.tsx:182-184  isProtectedRoute
isProtectedRoute(pathname) == \E route \in PROTECTED_ROUTES : StartsWith(pathname, route)

\* FormError.tsx:187-189  isAuthRoute
isAuthRoute(pathname) == \E route \in AUTH_ROUTES : StartsWith(pathname, route)

\* No session_token cookie in the request.
NoCookie == 0

\* FormError.tsx:193-196  the redirect to /login, with its redirect parameter
RedirectToLogin(pathname) == [to |-> LoginPage, redirect |-> pathname]

\* FormError.tsx:201  the redirect to /dashboard
RedirectToDashboard == [to |-> Dashboard, redirect |-> <<>>]

\* FormError.tsx:205  NextResponse.next()
Proceed == [to |-> <<>>, redirect |-> <<>>]

\* The middleware threw: it returned nothing.
NoDecision == [to |-> <<"none">>, redirect |-> <<>>]

\* FormError.tsx:179-205  what the middleware returns for a path
Decision(pathname, isAuthenticated) ==
  IF isProtectedRoute(pathname) /\ ~isAuthenticated THEN RedirectToLogin(pathname)
  ELSE IF isAuthRoute(pathname) /\ isAuthenticated THEN RedirectToDashboard
  ELSE Proceed

\* What the middleware returned (value.decision) or threw (error) for a
\* path and a cookie, and whether it called validateSession.
GateResult(pathname, cookie, after, called, decision, error) ==
  AuthResult("middleware", Null, cookie, after,
             [pathname |-> pathname, called |-> called, decision |-> decision], error)

\* FormError.tsx:171-205, auth.ts:126-137, 145  the middleware reads the
\* cookie and, when there is one, calls validateSession, which reads the
\* session: no session is null, a session that has not expired is its user,
\* and an expired one is deleted next (the requests in flight are bounded)
MiddlewareFind(pathname, cookie) ==
  /\ Cardinality(validating) < MaxInFlight
  /\ IF cookie = NoCookie
       THEN /\ authResult' = GateResult(pathname, cookie, FALSE, FALSE,
                                        Decision(pathname, FALSE), "")
            /\ UNCHANGED validating
     ELSE LET found == SessionsWithToken(cookie)
              after == cookie \in loggedOut
          IN IF found = {}
               THEN /\ authResult' = GateResult(pathname, cookie, after, TRUE,
                                                Decision(pathname, FALSE), "")
                    /\ UNCHANGED validating
             ELSE LET session == CHOOSE x \in found : TRUE
                  IN IF Expired(session)
                       THEN /\ validating' = validating \cup
                                 {[token |-> cookie, afterLogout |-> after,
                                   pathname |-> pathname]}
                            /\ authResult' = NoAuthResult
                       ELSE /\ authResult' = GateResult(pathname, cookie, after, TRUE,
                                                        Decision(pathname, TRUE), "")
                            /\ UNCHANGED validating
  /\ UNCHANGED <<userTable, sessionTable, now, drawn, loggedOut>>

\* auth.ts:138-142, FormError.tsx:178-205  the expired session is deleted and
\* validateSession returns null; the delete throws when the row has gone
\* meanwhile, and the middleware, which catches nothing, throws with it
MiddlewareDelete(call) ==
  /\ call \in validating
  /\ validating' = validating \ {call}
  /\ IF SessionsWithToken(call.token) = {}
     THEN /\ authResult' = GateResult(call.pathname, call.token, call.afterLogout, TRUE,
                                      NoDecision, RecordNotFound)
          /\ UNCHANGED sessionTable
     ELSE /\ sessionTable' = SessionDeleted(call.token)
          /\ authResult' = GateResult(call.pathname, call.token, call.afterLogout, TRUE,
                                      Decision(call.pathname, FALSE), "")
  /\ UNCHANGED <<userTable, now, drawn, loggedOut>>

\* The user of SpecGate: the middleware reads no field of the user.
GateEmail == CHOOSE m \in Emails : TRUE

\* Requests passing the middleware while a user signs up, logs in and out,
\* and time passes.
NextGate ==
  \/ Signup(GateEmail, SignupPassword) /\ UNCHANGED <<cycleVars, coordVars>>
  \/ Login(GateEmail, SignupPassword) /\ UNCHANGED <<cycleVars, coordVars>>
  \/ \E t \in Tokens : Logout(t) /\ UNCHANGED <<cycleVars, coordVars>>
  \/ \E path \in Paths, cookie \in Tokens \cup {NoCookie} :
       MiddlewareFind(path, cookie) /\ UNCHANGED <<cycleVars, coordVars>>
  \/ \E call \in validating : MiddlewareDelete(call) /\ UNCHANGED <<cycleVars, coordVars>>
  \/ Tick /\ UNCHANGED <<cycleVars, coordVars>>

SpecGate == Init /\ [][NextGate]_vars

(* ----------------------------------------------- signup route: the steps *)

\* No exchangeCode in the body of the signup request.
NoCode == 0

\* A signup request, new or suspended at an await point of its join.
SignupRequest(at, user, exchange) == Request("signup", at, user, exchange, <<>>, FALSE)

Created == [status |-> 201, body |-> "user"]

\* The stored users: those who can log in and send requests of their own.
StoredUsers == {userTable[m].id : m \in {x \in Emails : userTable[x].exists}}

\* signup route POST, lines 7-36: signup stores the user and login stores a
\* session; the response is sent at once when the body has no exchangeCode or
\* no exchange has the code.  (The lookup of the exchange is taken with the
\* signup: an exchange that appears between the two is one the lookup would
\* have missed, or one the new user created, which the next step then finds
\* the user in.)
SignupStart(email, password, code) ==
  /\ Accept
  /\ IF userTable[email].exists
     THEN /\ Respond({}, SignupRequest("", Null, 0), handleApiError(EmailExists))
          /\ UNCHANGED <<userTable, sessionTable, drawn>>
     ELSE \E token \in generateSessionToken :
            LET user == [exists |-> TRUE, id |-> UserId(email),
                         password_hash |-> hashPassword(password)]
                session == [token |-> token, user_id |-> user.id,
                            expires_at |-> getSessionExpiry]
            IN /\ userTable' = [userTable EXCEPT ![email] = user]
               /\ sessionTable' = sessionTable \cup {session}
               /\ drawn' = drawn \cup {token}
               /\ IF code = NoCode \/ ExchangesWithCode(code) = {}
                  THEN Respond({}, SignupRequest("", user.id, 0), Created)
                  ELSE LET e == CHOOSE x \in ExchangesWithCode(code) : TRUE
                       IN Suspend({}, SignupRequest("findParticipant", user.id, e))
  /\ UNCHANGED <<dbVars, generations, now, loggedOut, validating, authResult>>

\* signup route POST, lines 37-45: the check for an existing participant row
SignupFindParticipant(r) ==
  /\ r.op = "signup" /\ r.at = "findParticipant"
  /\ IF r.user \in IdSet(participantTable[r.exchange])
     THEN Respond({r}, r, Created)
     ELSE Suspend({r}, [r EXCEPT !.at = "create"])
  /\ UNCHANGED <<dbVars, generations, requests, authVars>>

\* signup route POST, lines 46-57: the participant row is created; a refused
\* create is caught and logged, and the signup succeeds all the same
SignupCreate(r) ==
  /\ r.op = "signup" /\ r.at = "create"
  /\ IF ParticipantKeyTaken(participantTable[r.exchange], r.user)
     THEN UNCHANGED participantTable
     ELSE participantTable' = [participantTable EXCEPT ![r.exchange] = Append(@, r.user)]
  /\ Respond({r}, r, Created)
  /\ UNCHANGED <<exchangeTable, assignmentTable, generations, requests, authVars>>

\* The ways into an exchange: users sign up, with or without an exchange
\* code, and the stored users create exchanges and join them, all requests
\* interleaving at their await points.
NextJoin ==
  \/ \E m \in Emails, c \in Codes \cup {NoCode} :
       SignupStart(m, SignupPassword, c) /\ UNCHANGED cycleVars
  \/ \E r \in BagToSet(inflight) : SignupFindParticipant(r) /\ UNCHANGED cycleVars
  \/ \E r \in BagToSet(inflight) : SignupCreate(r) /\ UNCHANGED cycleVars
  \/ \E u \in StoredUsers : CreateExchange(u) /\ UNCHANGED <<cycleVars, authVars>>
  \/ \E u \in StoredUsers, c \in Codes :
       JoinFindExchange(u, c) /\ UNCHANGED <<cycleVars, authVars>>
  \/ \E r \in BagToSet(inflight) : JoinFindParticipant(r) /\ UNCHANGED <<cycleVars, authVars>>
  \/ \E r \in BagToSet(inflight) : JoinCreate(r) /\ UNCHANGED <<cycleVars, authVars>>

SpecJoin == Init /\ [][NextJoin]_vars

(* ------------------------------------------- createExchange: the steps *)

\* The exchanges SpecCreate can hold: one more than the codes it leaves free,
\* so that two exchanges can be stored and the draws can run out of codes.
CreateSlots == 1..(NumExchanges + 1)

\* A createExchange request: suspended at the findUnique of attempt `attempt`
\* of generateUniqueExchangeCode, or at the transaction with the code the
\* loop returned.
CreateRequest(at, user, code, attempt) ==
  [op |-> "create", at |-> at, user |-> user, exchange |-> 0, pairs |-> <<>>,
   afterGeneration |-> FALSE, code |-> code, attempt |-> attempt]

StoredExchanges == {e \in DOMAIN exchangeTable : exchangeTable[e].exists}

\* A slot is left for every createExchange request that is taken.
SlotLeft ==
  Cardinality(StoredExchanges) + BagCardinality(inflight)
    < Cardinality(DOMAIN exchangeTable)

\* The users of SpecCreate: an organizer and another user.
Creators == {1, 2}

\* part_001:8-35, exchange.ts:38-53  POST /api/exchange of the authenticated
\* user u with a valid form: createExchange enters generateUniqueExchangeCode
CreateStart(u) ==
  /\ Accept
  /\ SlotLeft
  /\ Suspend({}, CreateRequest("findCode", u, 0, 0))
  /\ UNCHANGED <<dbVars, generations>>

\* exchange.ts:13-31  one attempt of generateUniqueExchangeCode: a code is
\* drawn and looked up; a code no exchange has is returned, and the tenth
\* code in use ends the loop with an Error
CreateFindCode(r) ==
  /\ r.op = "create" /\ r.at = "findCode"
  /\ \E code \in Codes :
       IF ExchangesWithCode(code) = {}
         THEN Suspend({r}, [r EXCEPT !.at = "transaction", !.code = code])
       ELSE IF r.attempt + 1 < MAX_CODE_GENERATION_ATTEMPTS
         THEN Suspend({r}, [r EXCEPT !.attempt = @ + 1])
       ELSE Respond({r}, r, handleApiError(CodeGenerationFailed))
  /\ UNCHANGED <<dbVars, generations, requests>>

\* exchange.ts:62-86, part_001:54-71  the transaction creates the exchange
\* and the participant row of the organizer, or is refused for its code
CreateTransaction(r) ==
  /\ r.op = "create" /\ r.at = "transaction"
  /\ IF ExchangeCodeKeyTaken(r.code)
     THEN /\ Respond({r}, r, handleApiError(UniqueConstraintFailed))
          /\ UNCHANGED <<exchangeTable, participantTable>>
     ELSE LET free == DOMAIN exchangeTable \ StoredExchanges
              e == CHOOSE x \in free : \A y \in free : x <= y
          IN /\ exchangeTable' = [exchangeTable EXCEPT ![e] = NewExchange(r.user, r.code)]
             /\ participantTable' = [participantTable EXCEPT ![e] = FirstParticipants(r.user)]
             /\ Respond({r}, [r EXCEPT !.exchange = e], [status |-> 201, body |-> "exchange"])
  /\ UNCHANGED <<assignmentTable, generations, requests>>

InitCreate ==
  /\ CycleIdle
  /\ AuthIdle
  /\ exchangeTable = [e \in CreateSlots |-> NoExchange]
  /\ participantTable = [e \in CreateSlots |-> <<>>]
  /\ assignmentTable = [e \in CreateSlots |-> {}]
  /\ inflight = EmptyBag
  /\ requests = 0
  /\ response = NoResponse
  /\ generations = [e \in CreateSlots |-> 0]

\* createExchange requests interleaving at their await points, and
\* joinExchange requests served while no other request is (the races of the
\* joins are the subject of SpecJoin).
NextCreate ==
  \/ \E u \in Creators : CreateStart(u) /\ UNCHANGED <<cycleVars, authVars>>
  \/ \E r \in BagToSet(inflight) : CreateFindCode(r) /\ UNCHANGED <<cycleVars, authVars>>
  \/ \E r \in BagToSet(inflight) : CreateTransaction(r) /\ UNCHANGED <<cycleVars, authVars>>
  \/ \E u \in Creators, c \in Codes :
       inflight = EmptyBag /\ JoinFindExchange(u, c) /\ UNCHANGED <<cycleVars, authVars>>
  \/ \E r \in BagToSet(inflight) : JoinFindParticipant(r) /\ UNCHANGED <<cycleVars, authVars>>
  \/ \E r \in BagToSet(inflight) : JoinCreate(r) /\ UNCHANGED <<cycleVars, authVars>>

SpecCreate == InitCreate /\ [][NextCreate]_vars

(* ------------------------------------------- two exchanges: the steps *)

\* Two exchanges, as two createExchange requests and the joins that followed
\* have left them: exchange e was created by user e with code e; the first
\* has three participants, the second is one short of them.
TwoExchanges == {1, 2}

InitMulti ==
  /\ CycleIdle
  /\ AuthIdle
  /\ exchangeTable = [e \in TwoExchanges |-> NewExchange(e, e)]
  /\ participantTable = [e \in TwoExchanges |-> IF e = 1 THEN <<1, 2, 3>> ELSE <<2, 3>>]
  /\ assignmentTable = [e \in TwoExchanges |-> {}]
  /\ inflight = EmptyBag
  /\ requests = 0
  /\ response = NoResponse
  /\ generations = [e \in TwoExchanges |-> 0]

\* The users who join in SpecMulti: those in neither exchange at first.
Joiners == Readers \ {1, 2, 3}

\* joinExchange requests with the code of either exchange and
\* generateAssignments requests of the organizers for the two exchanges,
\* interleaving at their await points.
NextMulti ==
  \/ \E u \in Joiners, c \in TwoExchanges :
       JoinFindExchange(u, c) /\ UNCHANGED <<cycleVars, authVars>>
  \/ \E r \in BagToSet(inflight) : JoinFindParticipant(r) /\ UNCHANGED <<cycleVars, authVars>>
  \/ \E r \in BagToSet(inflight) : JoinCreate(r) /\ UNCHANGED <<cycleVars, authVars>>
  \/ \E e \in TwoExchanges :
       GenFindExchange(exchangeTable[e].organizer_id, e) /\ UNCHANGED <<cycleVars, authVars>>
  \/ \E r \in BagToSet(inflight) : GenGetParticipants(r) /\ UNCHANGED <<cycleVars, authVars>>
  \/ \E r \in BagToSet(inflight) : GenTransaction(r) /\ UNCHANGED <<cycleVars, authVars>>

SpecMulti == InitMulti /\ [][NextMulti]_vars

(* -------------------------------------------- read side: the checked claims *)

\* The assignment table that differs from rows in the pair of the giver g:
\* that pair removed (x = 0), or added or replaced with the receiver x.
DifferInPairOf(rows, g, x) ==
  {r \in rows : r.giver_id # g}
    \cup (IF x = 0 THEN {} ELSE {[giver_id |-> g, receiver_id |-> x]})

\* C13: GET /api/assignment/[exchangeId] answers the caller u with the name
\* and the email of the receiver of the one stored pair of the exchange whose
\* giver is u and with nothing else, and the answer is the same for every
\* table that holds the same pair of u and differs in the pair of another
\* giver.
C13_OwnPairOnly ==
  response.op = "assignment" =>
    LET u == response.user
        e == response.exchange
        own == {r \in assignmentTable[e] : r.giver_id = u}
    IN /\ Cardinality(own) <= 1
       /\ response.status = 200 =>
            /\ own # {}
            /\ DOMAIN response.body = {"receiver_name", "receiver_email"}
            /\ \A r \in own :
                 /\ response.body.receiver_name = UserName(r.receiver_id)
                 /\ response.body.receiver_email = UserEmail(r.receiver_id)
       /\ \A g \in Readers \ {u}, x \in Readers \cup {0} :
            LET other == DifferInPairOf(assignmentTable[e], g, x)
                answer == getAssignment(participantTable[e], other, u)
            IN /\ answer.status = response.status
               /\ answer.body = response.body

\* A participant has been shown their receiver while the other pairs exist.
C13_Witness ==
  /\ response.op = "assignment"
  /\ response.status = 200
  /\ ~response.byOrganizer
  /\ Cardinality(assignmentTable[response.exchange]) >= MinParticipants
  /\ \E r \in assignmentTable[response.exchange] :
       /\ r.giver_id = response.user
       /\ response.body.receiver_email = UserEmail(r.receiver_id)

\* C14: a user who is not a participant of the exchange is answered 403
\* 'You are not a participant in this exchange' by GET
\* /api/assignment/[exchangeId], before and after the generation, and is
\* shown no receiver.
C14_NonParticipantDenied ==
  ( /\ response.op = "assignment"
    /\ response.user \notin IdSet(participantTable[response.exchange]) )
  => ( /\ response.status = 403
       /\ response.body = NotAParticipant
       /\ response.shown = {} )

\* A user outside a generated exchange has just been refused.
C14_Witness ==
  /\ response.op = "assignment"
  /\ response.user \notin IdSet(participantTable[response.exchange])
  /\ response.afterGeneration
  /\ assignmentTable[response.exchange] # {}
  /\ response.status = 403

\* C15: once the assignments of an exchange are generated, GET
\* /api/assignment/[exchangeId] answers every participant of the exchange
\* with a receiver.
C15_EveryParticipantSees ==
  ( /\ response.op = "assignment"
    /\ exchangeTable[response.exchange].assignments_generated
    /\ response.user \in IdSet(participantTable[response.exchange]) )
  => response.status = 200

\* C16: no read shows a stored pair (giver, receiver) to a user other than
\* its giver, the organizer included.
C16_OnlyGiverSees ==
  response.op \in Reads =>
    \A r \in response.shown : r.giver_id = response.user

\* C17: a participant who requests their assignment before the assignments
\* of the exchange are generated is answered 404 'Assignments have not been
\* generated yet' and is shown no receiver.
C17_NotGeneratedYet ==
  ( /\ response.op = "assignment"
    /\ response.user \in IdSet(participantTable[response.exchange])
    /\ ~exchangeTable[response.exchange].assignments_generated )
  => ( /\ response.status = 404
       /\ response.body = NotGeneratedYet
       /\ response.shown = {} )

\* A participant of an exchange that could be generated, and is not yet, has
\* just been answered.
C17_Witness ==
  /\ response.op = "assignment"
  /\ response.user \in IdSet(participantTable[response.exchange])
  /\ ~exchangeTable[response.exchange].assignments_generated
  /\ Len(participantTable[response.exchange]) >= MinParticipants
  /\ response.status = 404

(* ----------------------------------------- authentication: the checked claims *)

\* C18: once logout has deleted the session of a token, the table holds no
\* session with that token again, and every validateSession call made for
\* the token from then on returns null, whatever signups, logins, logouts and
\* validations follow.
C18_LoggedOutStaysInvalid ==
  /\ \A t \in loggedOut : SessionsWithToken(t) = {}
  /\ ( /\ authResult.op = "validateSession"
       /\ authResult.afterLogout )
     => ( /\ authResult.value = Null
          /\ authResult.error = "" )

\* A token has been refused after its logout, while a session created by a
\* later login is stored.
C18_Witness ==
  /\ authResult.op = "validateSession"
  /\ authResult.afterLogout
  /\ authResult.token \in loggedOut
  /\ authResult.value = Null
  /\ sessionTable # {}

\* C19: a login with the email and the password of a stored user stores a
\* session of that user and returns its token; validateSession returns that
\* user for the token as long as the session is stored and not expired, and
\* the session stays stored until a logout of the token or a validation after
\* its expiry; a login with an unknown email or a wrong password throws
\* 'Invalid credentials' and stores no session.
C19_LoginCreatesSession ==
  /\ [](( /\ authResult.op = "login"
          /\ authResult.account # Null )
        => ( /\ authResult.error = ""
             /\ authResult.value = authResult.account
             /\ \E x \in sessionTable :
                  /\ x.token = authResult.token
                  /\ x.user_id = authResult.account
                  /\ ~(x.expires_at < now) ))
  /\ [](( /\ authResult.op = "login"
          /\ authResult.account = Null )
        => ( /\ authResult.error = InvalidCredentials
             /\ authResult.value = Null ))
  /\ [](authResult.op = "validateSession" =>
          \A x \in sessionTable :
            (x.token = authResult.token /\ ~(x.expires_at < now))
            => (authResult.value = x.user_id /\ authResult.error = ""))
  /\ [][( /\ authResult'.op = "login"
          /\ authResult'.account = Null ) => sessionTable' = sessionTable]_vars
  /\ [][\A x \in sessionTable' \ sessionTable :
          /\ authResult'.op = "login"
          /\ x.token = authResult'.token
          /\ x.user_id = authResult'.account]_vars
  /\ [][\A x \in sessionTable \ sessionTable' :
          /\ authResult'.token = x.token
          /\ \/ authResult'.op = "logout"
             \/ authResult'.op = "validateSession" /\ x.expires_at < now]_vars

\* A session is accepted on the last day before it expires, another login
\* having been refused meanwhile.
C19_Witness ==
  /\ authResult.op = "validateSession"
  /\ authResult.value # Null
  /\ \E x \in sessionTable :
       /\ x.token = authResult.token
       /\ x.user_id = authResult.value
       /\ x.expires_at = now

(* ------------------------------------------------- joins: the checked claim *)

\* C20: under every interleaving of joinExchange requests and signups with an
\* exchange code, no user is twice in the participants of an exchange; the
\* step of a join that finds its user among the participants adds no row, and
\* a joinExchange request is then answered with an error.
C20_NoDuplicateParticipant ==
  /\ [](\A e \in ExchangeIds :
          \A a, b \in 1..Len(participantTable[e]) :
            participantTable[e][a] = participantTable[e][b] => a = b)
  /\ [][\A r \in BagToSet(inflight) :
          ( /\ Stepped(r)
            /\ r.op \in {"join", "signup"}
            /\ r.at \in {"findParticipant", "create"}
            /\ r.user \in IdSet(participantTable[r.exchange]) )
          => ( /\ participantTable' = participantTable
               /\ r.op = "join" => response'.status >= 400 )]_vars

\* A joinExchange request and a join of another request of the same user had
\* both found no row; the create of the joinExchange request has just been
\* refused.
C20_Witness ==
  /\ response.op = "join"
  /\ response.status = 500
  /\ Len(participantTable[response.exchange]) >= 2

(* ---------------------------------------- createExchange: the checked claims *)

\* C21: createExchange stores the exchange with its creator as organizer and
\* as first participant in one step: in every reachable state the organizer
\* of each stored exchange is among its participants, and the step that
\* stores an exchange leaves it with exactly one participant, the organizer,
\* and with assignments_generated false.
C21_OrganizerIsFirstParticipant ==
  /\ [](\A e \in StoredExchanges :
          /\ Len(participantTable[e]) >= 1
          /\ participantTable[e][1] = exchangeTable[e].organizer_id)
  /\ [][\A e \in DOMAIN exchangeTable :
          (exchangeTable'[e].exists /\ ~exchangeTable[e].exists)
          => ( /\ participantTable'[e] = <<exchangeTable'[e].organizer_id>>
               /\ ~exchangeTable'[e].assignments_generated
               /\ assignmentTable'[e] = {}
               /\ response'.op = "create"
               /\ response'.status = 201 )]_vars

\* A second exchange has just been created while another user has joined the
\* first.
C21_Witness ==
  /\ response.op = "create"
  /\ response.status = 201
  /\ Cardinality(StoredExchanges) >= 2
  /\ \E e \in StoredExchanges : Len(participantTable[e]) >= 2
  /\ \E e \in StoredExchanges : participantTable[e] = <<exchangeTable[e].organizer_id>>

\* C22: under every interleaving of createExchange requests no two stored
\* exchanges have the same code: a code is the code of at most one exchange.
C22_CodesUnique ==
  /\ \A a, b \in StoredExchanges :
       exchangeTable[a].code = exchangeTable[b].code => a = b
  /\ \A c \in Codes : Cardinality(ExchangesWithCode(c)) <= 1

\* Every slot holds an exchange and every createExchange request has been
\* answered.
C22_Witness ==
  /\ StoredExchanges = DOMAIN exchangeTable
  /\ Cardinality(StoredExchanges) >= 2
  /\ response.op = "create"
  /\ inflight = EmptyBag

(* ------------------------------------------ two exchanges: the checked claim *)

\* What is stored for exchange e: its participants, its assignment rows and
\* its assignments_generated flag.
StoredFor(e) ==
  <<participantTable[e], assignmentTable[e], exchangeTable[e].assignments_generated>>

\* C23: every step that changes the participants, the assignment rows or the
\* assignments_generated flag of an exchange is the step of a joinExchange or
\* generateAssignments request for that exchange, and it changes them for no
\* other exchange; a generation request of the organizer that finds no rows
\* stored for its own exchange commits its pairs and is answered 200,
\* whatever is stored or in flight for the other exchange.
C23_ExchangesIndependent ==
  /\ [][\A y \in DOMAIN exchangeTable :
          StoredFor(y)' # StoredFor(y)
          => ( /\ response'.op \in {"join", "generate"}
               /\ response'.exchange = y
               /\ \A x \in DOMAIN exchangeTable \ {y} : StoredFor(x)' = StoredFor(x) )]_vars
  /\ [][\A r \in BagToSet(inflight) :
          ( /\ Stepped(r)
            /\ r.op = "generate" /\ r.at = "transaction"
            /\ assignmentTable[r.exchange] = {} )
          => ( /\ response'.status = 200
               /\ response'.exchange = r.exchange
               /\ assignmentTable'[r.exchange] = AssignmentRows(r.pairs)
               /\ exchangeTable'[r.exchange].assignments_generated )]_vars

\* Both generations have succeeded, and a join has added a participant to
\* one of the exchanges after its generation had read them.
C23_Witness ==
  /\ response.op = "generate"
  /\ response.status = 200
  /\ \A e \in TwoExchanges : generations[e] = 1 /\ assignmentTable[e] # {}
  /\ \E e \in TwoExchanges : Cardinality(assignmentTable[e]) < Len(participantTable[e])

(* ------------------------------------------- middleware: the checked claim *)

\* A stored session that has not expired has this token.
ValidToken(token) == \E x \in SessionsWithToken(token) : ~Expired(x)

\* C24: the middleware answers every request to a protected route: it lets
\* the request proceed if and only if its session_token cookie is the token
\* of a stored session that has not expired, and redirects every other
\* request (no cookie, an unknown, a logged-out or an expired token) to
\* /login with the path in the redirect parameter; it does not call
\* validateSession when the request has no cookie.
C24_ProtectedNeedsValidSession ==
  ( /\ authResult.op = "middleware"
    /\ isProtectedRoute(authResult.value.pathname) )
  => ( /\ authResult.error = ""
       /\ authResult.value.decision = Proceed <=> ValidToken(authResult.token)
       /\ ~ValidToken(authResult.token)
            => authResult.value.decision = RedirectToLogin(authResult.value.pathname)
       /\ authResult.token = NoCookie => ~authResult.value.called )

(* ------------------------------------- stored assignments: the checked claims *)

Givers(rows) == {r.giver_id : r \in rows}

\* Where n steps along giver -> receiver lead from the ids in S.
RECURSIVE RowsAfter(_, _, _)
RowsAfter(rows, S, n) ==
  IF n = 0 THEN S
  ELSE RowsAfter(rows, {r.receiver_id : r \in {x \in rows : x.giver_id \in S}}, n - 1)

\* The rows are one complete set of assignments for a snapshot of the
\* participants (those of the exchange when they were read: the first n of
\* its participants now): one row for each of them as giver, forming one
\* cycle over them.
CompleteSet(rows, participants) ==
  LET ids == Givers(rows)
      N == Cardinality(ids)
  IN /\ Cardinality(rows) = N
     /\ N >= MinParticipants
     /\ \E n \in 1..Len(participants) : ids = IdSet(SubSeq(participants, 1, n))
     /\ \A s \in ids :
          /\ \A k \in 0..N : Cardinality(RowsAfter(rows, {s}, k)) = 1
          /\ RowsAfter(rows, {s}, N) = {s}
          /\ \A k \in 1..(N - 1) : RowsAfter(rows, {s}, k) # {s}
          /\ UNION {RowsAfter(rows, {s}, k) : k \in 0..(N - 1)} = ids

\* C25: in every reachable state the assignment rows stored for an exchange
\* are none, or one complete set computed from one snapshot of its
\* participants: one row per giver, the givers being the participants read
\* by the generation, and the pairs forming a single cycle over them; and the
\* pairs every generation request holds for its transaction are such a set.
C25_OneCompleteSet ==
  /\ \A e \in DOMAIN assignmentTable :
       \/ assignmentTable[e] = {}
       \/ CompleteSet(assignmentTable[e], participantTable[e])
  /\ \A r \in BagToSet(inflight) :
       (r.op = "generate" /\ r.at = "transaction")
       => CompleteSet(AssignmentRows(r.pairs), participantTable[r.exchange])

\* A generation has just committed its set while another request, which had
\* computed a different cycle, is waiting for its transaction.
C25_Witness ==
  /\ response.op = "generate"
  /\ response.status = 200
  /\ assignmentTable[response.exchange] # {}
  /\ \E r \in BagToSet(inflight) :
       /\ r.op = "generate" /\ r.at = "transaction"
       /\ r.exchange = response.exchange
       /\ AssignmentRows(r.pairs) # assignmentTable[response.exchange]

\* C26: in every reachable state, after a refused generation too, an exchange
\* has assignments_generated = true if and only if assignment rows are stored
\* for it.
C26_FlagIffPairs ==
  \A e \in DOMAIN exchangeTable :
    exchangeTable[e].assignments_generated <=> assignmentTable[e] # {}

\* A generation has been refused by its transaction: the rows and the flag
\* are those of the generation that had committed before.
C26_Witness ==
  /\ response.op = "generate"
  /\ response.status = 500
  /\ exchangeTable[response.exchange].assignments_generated
  /\ Cardinality(assignmentTable[response.exchange]) = MinParticipants

(* ------------------------ createAssignmentCycle: the checked claims, continued *)

RECURSIVE Factorial(_)
Factorial(n) == IF n <= 1 THEN 1 ELSE n * Factorial(n - 1)

\* Where n applications of f lead from x.
RECURSIVE Iterate(_, _, _)
Iterate(f, x, n) == IF n = 0 THEN x ELSE Iterate(f, f[x], n - 1)

\* f maps ids onto itself in one cycle.
CyclicPermutation(f, ids) ==
  LET N == Cardinality(ids)
  IN \A s \in ids :
       /\ Iterate(f, s, N) = s
       /\ {Iterate(f, s, k) : k \in 0..(N - 1)} = ids

PairSet(pairs) == {pairs[k] : k \in 1..Len(pairs)}

\* C27: with every draw of j free in 0..i, the shuffle of N distinct
\* participants can return each of the N! orderings of them, and
\* createAssignmentCycle can return each of the (N-1)! directed cycles over
\* them (and nothing else): no starting point and no direction is fixed.
C27_EveryCyclePossible ==
  (cpc = "call" /\ ValidCall) =>
    LET ids == IdSet(given)
        N == Len(given)
        results == shuffleArray(given)
        outputs == {PairSet(pairs) : pairs \in createAssignmentCycle(given)}
    IN /\ results = {p \in [1..N -> ids] : Distinct(p)}
       /\ Cardinality(results) = Factorial(N)
       /\ \A f \in [ids -> ids] :
            CyclicPermutation(f, ids)
            => {[giverId |-> x, receiverId |-> f[x]] : x \in ids} \in outputs
       /\ Cardinality(outputs) = Factorial(N - 1)

\* A call with three participants has returned the cycle that runs against
\* the order of its input, from an ordering that starts with its last.
C27_Witness ==
  /\ Returned /\ ValidCall
  /\ Len(given) = 3
  /\ heap.shuffled[1] = given[3]
  /\ [giverId |-> given[1], receiverId |-> given[3]] \in PairSet(assignments)

\* How far the call has come.
Stage(point) ==
  IF point = "call" THEN 0
  ELSE IF point = "shuffle" THEN 1
  ELSE IF point = "pair" THEN 2
  ELSE 3

\* C28: every call ends, returned or thrown, whatever its input and its
\* draws, and never goes back to a loop it has left; the shuffle loop starts
\* at i = N-1, swaps once for each i down to 1 and is left at i = 0 (N-1
\* swaps); the pairing loop starts at i = 0, pushes one pair for each i up to
\* N-1 and is left at i = N (N pairs), and then the result is returned.
C28_Terminates ==
  /\ <>(cpc \in {"returned", "thrown"})
  /\ [][Stage(cpc') >= Stage(cpc)]_vars
  /\ [][(cpc = "call" /\ cpc' = "shuffle") => i' = Len(given) - 1]_vars
  /\ [][(cpc = "shuffle" /\ cpc' = "shuffle") => (i >= 1 /\ i' = i - 1)]_vars
  /\ [][(cpc = "shuffle" /\ cpc' # "shuffle") => (i = 0 /\ cpc' = "pair" /\ i' = 0)]_vars
  /\ [][(cpc = "pair" /\ cpc' = "pair")
          => ( /\ i < Len(given)
               /\ i' = i + 1
               /\ Len(assignments') = Len(assignments) + 1 )]_vars
  /\ [][(cpc = "pair" /\ cpc' # "pair")
          => ( /\ i = Len(given)
               /\ cpc' = "returned"
               /\ assignments' = assignments )]_vars
  /\ [](cpc = "pair" => Len(assignments) = i)

\* A call with the longest input, an id twice in it, has returned after its
\* last pairing iteration.
C28_Witness ==
  /\ Returned
  /\ Len(given) = MaxLen
  /\ ~Distinct(given)
  /\ i = MaxLen
  /\ Len(assignments) = MaxLen

\* The number of entries of the array that hold the id.
Entries(array, id) == Cardinality({k \in 1..Len(array) : array[k] = id})

\* C29 (as stated): for every input of N >= 2 entries, with an id more than
\* once or not, no returned pair has giverId equal to receiverId.
C29_NoSelfPairAnyInput ==
  (Returned /\ Len(given) >= 2) =>
    \A k \in 1..Len(assignments) : assignments[k].giverId # assignments[k].receiverId

\* C29 (amended): for every input of N >= 2 entries a returned pair has
\* giverId equal to receiverId only if that id is in the input more than
\* once; for pairwise distinct ids no pair has.
C29_SelfPairOnlyOfDuplicate ==
  (Returned /\ Len(given) >= 2) =>
    \A k \in 1..Len(assignments) :
      assignments[k].giverId = assignments[k].receiverId
      => Entries(given, assignments[k].giverId) >= 2

\* A call whose input holds an id twice and another once has returned a pair
\* of the first id with itself.
C29_Witness ==
  /\ Returned
  /\ Len(given) >= 3
  /\ \E id \in IdSet(given) : Entries(given, id) = 1
  /\ \E k \in 1..Len(assignments) :
       /\ assignments[k].giverId = assignments[k].receiverId
       /\ Entries(given, assignments[k].giverId) = 2

(* ---------------------------------- validateSession: the checked claim *)

\* C30: validateSession returns for every token: the user of a stored
\* session that has not expired, which it leaves stored, and null for a
\* token whose session has expired, which it deletes, so that no session of
\* the token is stored afterwards.
C30_ExpiredSessionReturnsNull ==
  authResult.op = "validateSession" =>
    /\ authResult.error = ""
    /\ authResult.value # Null =>
         \E x \in SessionsWithToken(authResult.token) :
           ~Expired(x) /\ x.user_id = authResult.value
    /\ authResult.value = Null => SessionsWithToken(authResult.token) = {}

====
